---- MODULE Spec2Model ----
(***************************************************************************)
(* Generation job orchestrator of literal-visualiser (src/start.ts):       *)
(* the /generate and /poll handlers of Server, the per-line resolution     *)
(* callback, the promise chain _generationQueue and the inactivity timers. *)
(* One action is one macrotask of the Node event loop: a request handler   *)
(* or the continuation of an await, together with every microtask it       *)
(* triggers (promise reactions run before the next macrotask).             *)
(***************************************************************************)
EXTENDS Integers, Sequences, FiniteSets, TLC

\* ---------------------------------------------------------------- bounds
\* number of /generate requests the model admits
MaxJobs == 3
\* number of lyric lines the requests of the model have between them
MaxLines == 3
\* largest number of images one call of the image generator returns
MaxImages == 1
\* number of /generate requests admitted by the specifications that measure
\* time or check progress
MaxFewJobs == 2
\* clock steps in one inactivity window when time is measured
TicksPerWindow == 2

\* ------------------------------------------------------ program constants
GENERATION_TIMEOUT_MS == 5000
\* throttle: phrases per interval and interval length (start.ts:242)
ThrottleBatch == 3
ThrottleIntervalMs == 10000

\* ------------------------------------------------------------ inputs
JobIds == 1..MaxJobs
\* an id no /generate request ever handed out
UnknownId == 0

\* md5 of the phrases the model uses (start.ts:183, 224)
md5(words) ==
  CASE words = "a" -> "0cc175b9c0f1b6a831c399e269772661"
    [] words = "b" -> "92eb5ffee6ae2fec3ad71c777531578f"

Line(t, w) == [startTimeMs |-> t, words |-> w]

\* the tracks requested, and the lines the lyric retrieval reads for each
\* (start.ts:141-160); the lyric service has no lyrics for "missing"
TrackIds == {"cached", "solo", "dup", "unsynced", "missing"}
LinesOf(trackId) ==
  CASE trackId = "cached"   -> <<Line(1000, "a")>>
    [] trackId = "solo"     -> <<Line(1000, "b")>>
    [] trackId = "dup"      -> <<Line(0, "b"), Line(1000, "b")>>
    [] trackId = "unsynced" -> <<Line(0, "a"), Line(0, "b")>>
    [] trackId = "missing"  -> <<>>

\* the request to the lyric service fails with status 404 (start.ts:150, 171)
NotFound(trackId) == trackId = "missing"

\* variant: lyrics that are not synced are accepted
UnsyncedNever(lines) == FALSE

\* lines.every((line) => line.startTimeMs === 0) (start.ts:162)
Unsynced(lines) == \A k \in 1..Len(lines) : lines[k].startTimeMs = 0

\* ------------------------------------------------------------ helpers
MapSet(m, k, v) == [x \in (DOMAIN m) \cup {k} |-> IF x = k THEN v ELSE m[x]]
MapDelete(m, k) == [x \in (DOMAIN m) \ {k} |-> m[x]]
EmptyMap == [x \in {} |-> 0]

\* Array.prototype.indexOf: 0-based, -1 when absent
IndexOf(seq, x) ==
  IF \E k \in 1..Len(seq) : seq[k] = x
    THEN (CHOOSE k \in 1..Len(seq) : seq[k] = x /\ \A m \in 1..(k-1) : seq[m] # x) - 1
    ELSE -1

\* variant: the entry is left in place
DeleteKeyKeeps(seq, x) == seq

\* delete obj[key] on a record whose values are listed in insertion order
DeleteKey(seq, x) == SelectSeq(seq, LAMBDA y : y # x)

Range(seq) == {seq[k] : k \in 1..Len(seq)}

\* ------------------------------------------------------------ state
VARIABLES
  jobs,                 \* per /generate request: the handler's locals and its line tasks
  pendingGenerations,   \* Server._pendingGenerations: id -> Generation
  waitingGenerations,   \* Server._waitingGenerations: ids in insertion order
  generationTimeouts,   \* Server._generationTimeouts: id -> time left on the armed timer
  generationQueue,      \* Server._generationQueue: callbacks attached and not finished, head running
  generations,          \* rows of the table generations
  storeTasks,           \* the detached image stores of images.forEach (start.ts:259-263)
  response,             \* the HTTP response sent by the last step, if it sent one
  generated,            \* history: phrases the generator has returned images for
  timedOut,             \* history: ids whose inactivity timer has fired
  doneServed,           \* history: ids for which poll has returned a done snapshot
  idleMs                \* history: id -> time since generate or a poll last found the job

vars == <<jobs, pendingGenerations, waitingGenerations, generationTimeouts,
          generationQueue, generations, storeTasks, response,
          generated, timedOut, doneServed, idleMs>>

NoResponse == [op |-> "none"]
Undefined == [undefined |-> TRUE]
ImageUriPrefix == "data:image/jpeg;base64,"

\* the record an earlier run of the server left in the Dedup Cache
SeedImage == <<0, 0, 1>>
SeedRow == [id |-> SeedImage, words_hash |-> md5("a")]

\* Generation values (start.ts:40-54)
Waiting == [status |-> "waiting"]
InProgress(d, t) == [status |-> "inProgress", done |-> d, total |-> t]
\* the member of Generation no statement assigns (start.ts:49-50)
Cancelled == [status |-> "cancelled"]
Error == [status |-> "error"]
Done(l) == [status |-> "done", lyrics |-> l]

\* getGeneration()?.status (start.ts:212)
StatusOf(pg, id) == IF id \in DOMAIN pg THEN pg[id].status ELSE "undefined"

\* variant: the slot of the job in progress is not counted
QueuePositionNoCurrent(wg, id) == IndexOf(wg, id) + 1

\* the queuePosition getter (start.ts:196-198)
QueuePosition(wg, id) == IndexOf(wg, id) + 2

\* JSON serialisation of a Generation by res.json (start.ts:322)
Snapshot(pg, wg, id) ==
  IF pg[id].status = "waiting"
    THEN [status |-> "waiting", queuePosition |-> QueuePosition(wg, id)]
    ELSE pg[id]

\* SELECT id FROM generations WHERE words_hash = ? (start.ts:225)
RowsFor(rows, h) == {r.id : r \in {x \in rows : x.words_hash = h}}

\* variant: every hash asked for is counted
CountDistinctPresentAll(rows, hashes) == Cardinality(hashes)

\* SELECT COUNT(DISTINCT(words_hash)) ... WHERE words_hash IN (...) (start.ts:184)
CountDistinctPresent(rows, hashes) ==
  Cardinality({h \in hashes : RowsFor(rows, h) # {}})

\* uniqueWordHashes (start.ts:183)
UniqueWords(lines) == {lines[k].words : k \in 1..Len(lines)}

\* variant: a job whose hashes all have a record counts as having uncached work
HasAnyUncachedOrEqual(rows, lines) ==
  CountDistinctPresent(rows, {md5(w) : w \in UniqueWords(lines)})
    <= Cardinality(UniqueWords(lines))

\* hasAnyUncached (start.ts:184-185)
HasAnyUncached(rows, lines) ==
  CountDistinctPresent(rows, {md5(w) : w \in UniqueWords(lines)})
    < Cardinality(UniqueWords(lines))

\* Math.floor(uncachedIndex / 3) * 10000 (start.ts:242)
ThrottleDelayMs(uncachedIndex) == (uncachedIndex \div ThrottleBatch) * ThrottleIntervalMs

\* the images one generator call of line i of job id returns
ImagesOf(id, i, n) == {<<id, i, k>> : k \in 1..n}

\* ------------------------------------------------------------ the callback
\* The operators below transform a bundle of the variables the callback
\* touches; an action commits the bundle its step ends with.
Cur ==
  [jobs |-> jobs, pendingGenerations |-> pendingGenerations,
   waitingGenerations |-> waitingGenerations, generationQueue |-> generationQueue,
   storeTasks |-> storeTasks, generated |-> generated, generations |-> generations]

Commit(s) ==
  /\ jobs' = s.jobs
  /\ pendingGenerations' = s.pendingGenerations
  /\ waitingGenerations' = s.waitingGenerations
  /\ generationQueue' = s.generationQueue
  /\ storeTasks' = s.storeTasks
  /\ generated' = s.generated

NoImage == <<>>
ImageUri(image) == [prefix |-> ImageUriPrefix, base64 |-> image]
LineResult(line, image) ==
  [imageUri |-> ImageUri(image), startTimeMs |-> line.startTimeMs, words |-> line.words]

\* a line task suspended at its cache lookup (start.ts:225)
NewTask == [pc |-> "lookup", awaits |-> 0, record |-> NoImage, delayMs |-> 0,
            call |-> "none", nImages |-> 0, result |-> Undefined]
SkippedTask == [NewTask EXCEPT !.pc = "settled"]

\* variant: total leaves out the last line
setInProgressShortTotal(pg, id, lines) == MapSet(pg, id, InProgress(0, Len(lines) - 1))

\* setInProgress (start.ts:186-192)
setInProgress(pg, id, lines) == MapSet(pg, id, InProgress(0, Len(lines)))

\* the mapper of one line returns (start.ts:219, 231, 237, 244, 266, 276, 286)
SetResult(s, id, i, res) ==
  [s EXCEPT !.jobs[id].tasks[i] =
     [@ EXCEPT !.pc = "settled", !.awaits = 0, !.record = NoImage, !.result = res]]

\* variant: the catch block never touches the registry
CatchSwallows(s, id, i) ==
  SetResult(s, id, i, IF StatusOf(s.pendingGenerations, id) # "inProgress"
                        THEN Undefined ELSE LineResult(s.jobs[id].lines[i], NoImage))

\* variant: the catch block sets error without looking at the status
CatchOverwrites(s, id, i) ==
  [SetResult(s, id, i, LineResult(s.jobs[id].lines[i], NoImage))
     EXCEPT !.pendingGenerations = MapSet(@, id, Error)]

\* the catch block of a line (start.ts:274-284) and the return after it
Catch(s, id, i) ==
  IF StatusOf(s.pendingGenerations, id) # "inProgress"
    THEN SetResult(s, id, i, Undefined)
    ELSE [SetResult(s, id, i, LineResult(s.jobs[id].lines[i], NoImage))
            EXCEPT !.pendingGenerations = MapSet(@, id, Error)]

\* variant: a line that has its image returns without counting itself
SucceedUncounted(s, id, i, image) ==
  IF StatusOf(s.pendingGenerations, id) # "inProgress"
    THEN SetResult(s, id, i, Undefined)
    ELSE SetResult(s, id, i, LineResult(s.jobs[id].lines[i], image))

\* a line has its image: status re-check, done++ and return (start.ts:230, 236, 265, 270-273, 286)
Succeed(s, id, i, image) ==
  IF StatusOf(s.pendingGenerations, id) # "inProgress"
    THEN SetResult(s, id, i, Undefined)
    ELSE [SetResult(s, id, i, LineResult(s.jobs[id].lines[i], image))
            EXCEPT !.pendingGenerations[id].done = @ + 1]

\* the synchronous start of callback: setInProgress, delete the waiting
\* entry, and every line mapper up to its first await (start.ts:211-225)
StartBody(s, id) ==
  LET job == s.jobs[id]
      pg == setInProgress(s.pendingGenerations, id, job.lines)
  IN [s EXCEPT
        !.pendingGenerations = pg,
        !.waitingGenerations = DeleteKey(@, id),
        !.jobs[id] = [job EXCEPT
           !.pc = "body",
           !.uncachedIndex = -1,
           !.pendingImageUrisByWords = EmptyMap,
           !.rowsAtStart = s.generations,
           !.generatedAtStart = s.generated,
           !.tasks = [k \in 1..Len(job.lines) |->
                        IF StatusOf(pg, id) # "inProgress" THEN SkippedTask ELSE NewTask]]]

\* callback has returned: its locals are unreachable
FinishedJob(job) ==
  [job EXCEPT !.pc = "finished", !.uncachedIndex = -1,
              !.pendingImageUrisByWords = EmptyMap, !.rowsAtStart = {},
              !.generatedAtStart = {}, !.tasks = <<>>]

AllSettled(job) == \A k \in 1..Len(job.tasks) : job.tasks[k].pc = "settled"

\* variant: the done transition does not look at the status
CompleteUnchecked(s, id) ==
  LET job == s.jobs[id]
      s1 == IF TRUE
              THEN [s EXCEPT !.pendingGenerations =
                      MapSet(@, id, Done([k \in 1..Len(job.tasks) |-> job.tasks[k].result]))]
              ELSE s
      s2 == [s1 EXCEPT !.jobs[id] = FinishedJob(job)]
  IN IF job.hasAnyUncached
       THEN LET rest == Tail(s2.generationQueue)
                s3 == [s2 EXCEPT !.generationQueue = rest]
            IN IF rest = <<>> THEN s3 ELSE StartBody(s3, Head(rest))
       ELSE s2

\* variant: the done transition also takes a job in error
CompleteAfterError(s, id) ==
  LET job == s.jobs[id]
      s1 == IF StatusOf(s.pendingGenerations, id) \in {"inProgress", "error"}
              THEN [s EXCEPT !.pendingGenerations =
                      MapSet(@, id, Done([k \in 1..Len(job.tasks) |-> job.tasks[k].result]))]
              ELSE s
      s2 == [s1 EXCEPT !.jobs[id] = FinishedJob(job)]
  IN IF job.hasAnyUncached
       THEN LET rest == Tail(s2.generationQueue)
                s3 == [s2 EXCEPT !.generationQueue = rest]
            IN IF rest = <<>> THEN s3 ELSE StartBody(s3, Head(rest))
       ELSE s2

\* variant: the chain goes on only after a job that ended inProgress
CompleteStalls(s, id) ==
  LET job == s.jobs[id]
      s1 == IF StatusOf(s.pendingGenerations, id) = "inProgress"
              THEN [s EXCEPT !.pendingGenerations =
                      MapSet(@, id, Done([k \in 1..Len(job.tasks) |-> job.tasks[k].result]))]
              ELSE s
      s2 == [s1 EXCEPT !.jobs[id] = FinishedJob(job)]
  IN IF job.hasAnyUncached
       THEN LET rest == Tail(s2.generationQueue)
                s3 == [s2 EXCEPT !.generationQueue = rest]
            IN IF rest = <<>> \/ StatusOf(s.pendingGenerations, id) # "inProgress"
                 THEN s3 ELSE StartBody(s3, Head(rest))
       ELSE s2

\* Promise.all has resolved: the done transition (start.ts:292-297), and the
\* promise of callback settles, so the chain runs the next callback (start.ts:300)
Complete(s, id) ==
  LET job == s.jobs[id]
      s1 == IF StatusOf(s.pendingGenerations, id) = "inProgress"
              THEN [s EXCEPT !.pendingGenerations =
                      MapSet(@, id, Done([k \in 1..Len(job.tasks) |-> job.tasks[k].result]))]
              ELSE s
      s2 == [s1 EXCEPT !.jobs[id] = FinishedJob(job)]
  IN IF job.hasAnyUncached
       THEN LET rest == Tail(s2.generationQueue)
                s3 == [s2 EXCEPT !.generationQueue = rest]
            IN IF rest = <<>> THEN s3 ELSE StartBody(s3, Head(rest))
       ELSE s2

Finish(s, id) == IF AllSettled(s.jobs[id]) THEN Complete(s, id) ELSE s

\* variant: a line awaiting the pending promise of a call resumes with the
\* image of a record of the table
RECURSIVE ResumeAwaitersFromTable(_, _, _, _, _)
ResumeAwaitersFromTable(s, id, K, ok, pick) ==
  IF K = {} THEN s
  ELSE LET k == CHOOSE x \in K : \A y \in K : x <= y
       IN ResumeAwaitersFromTable(IF ok THEN Succeed(s, id, k, SeedImage) ELSE Catch(s, id, k),
                                  id, K \ {k}, ok, pick)

\* the lines awaiting the pending promise of a call resume, in line order
RECURSIVE ResumeAwaiters(_, _, _, _, _)
ResumeAwaiters(s, id, K, ok, pick) ==
  IF K = {} THEN s
  ELSE LET k == CHOOSE x \in K : \A y \in K : x <= y
       IN ResumeAwaiters(IF ok THEN Succeed(s, id, k, pick[k]) ELSE Catch(s, id, k),
                         id, K \ {k}, ok, pick)

\* ------------------------------------------------------------ initial state
Init ==
  /\ jobs = EmptyMap
  /\ pendingGenerations = EmptyMap
  /\ waitingGenerations = <<>>
  /\ generationTimeouts = EmptyMap
  /\ generationQueue = <<>>
  /\ generations = {SeedRow}
  /\ storeTasks = {}
  /\ response = NoResponse
  /\ generated = {}
  /\ timedOut = {}
  /\ doneServed = {}
  /\ idleMs = [id \in JobIds |-> 0]

\* variant: a timer that is armed is left to run
resetGenerationTimeoutOnce(gt, id) ==
  IF id \in DOMAIN gt THEN gt ELSE MapSet(gt, id, GENERATION_TIMEOUT_MS)

\* Server._resetGenerationTimeout (start.ts:401-415): clear and re-arm
resetGenerationTimeout(gt, id) == MapSet(gt, id, GENERATION_TIMEOUT_MS)

\* ------------------------------------------------------------ /generate
LinesRequested ==
  Cardinality({<<id, i>> \in (DOMAIN jobs) \X (1..MaxLines) : i <= jobs[id].nLines})

\* GET /generate/:trackId up to the await of the classification query: the
\* lyric retrieval, which ends the request with 422 when the track is not
\* found or not synced, then generationId and the row count the query sees
\* (start.ts:137-185)
GenerateRequest(trackId) ==
  LET id == Cardinality(DOMAIN jobs) + 1
      lines == LinesOf(trackId)
  IN IF NotFound(trackId) \/ Unsynced(lines)
       THEN /\ response' = [op |-> "generate", code |-> 422]
            /\ UNCHANGED <<jobs, pendingGenerations, waitingGenerations, generationTimeouts,
                           generationQueue, generations, storeTasks,
                           generated, timedOut, doneServed, idleMs>>
       ELSE /\ id <= MaxJobs
            /\ LinesRequested + Len(lines) <= MaxLines
            /\ jobs' = MapSet(jobs, id,
                 [pc |-> "classify", lines |-> lines, nLines |-> Len(lines),
                  hasAnyUncached |-> HasAnyUncached(generations, lines),
                  uncachedIndex |-> -1, pendingImageUrisByWords |-> EmptyMap,
                  rowsAtStart |-> {}, generatedAtStart |-> {}, tasks |-> <<>>])
            /\ response' = NoResponse
            /\ UNCHANGED <<pendingGenerations, waitingGenerations, generationTimeouts,
                           generationQueue, generations, storeTasks,
                           generated, timedOut, doneServed, idleMs>>

\* variant: the new waiting entry is put in front of the list
CreateJobInFront(s, id) ==
  IF s.jobs[id].hasAnyUncached
    THEN [s EXCEPT !.waitingGenerations = <<id>> \o @,
                   !.pendingGenerations = MapSet(@, id, Waiting)]
    ELSE [s EXCEPT !.pendingGenerations = MapSet(@, id, InProgress(0, Len(s.jobs[id].lines)))]

\* variant: a job with uncached work is registered inProgress at once
CreateJobInProgress(s, id) ==
  [s EXCEPT !.pendingGenerations = MapSet(@, id, InProgress(0, Len(s.jobs[id].lines)))]

\* the job enters the registry: waiting and listed when it has uncached work,
\* inProgress otherwise (start.ts:193-205)
CreateJob(s, id) ==
  IF s.jobs[id].hasAnyUncached
    THEN [s EXCEPT !.waitingGenerations = Append(@, id),
                   !.pendingGenerations = MapSet(@, id, Waiting)]
    ELSE [s EXCEPT !.pendingGenerations = setInProgress(@, id, s.jobs[id].lines)]

\* variant: callback is called at once instead of being chained
ChainCallbackAtOnce(s, id) ==
  StartBody([s EXCEPT !.generationQueue = Append(@, id)], id)

\* variant: callback is attached right behind the callback that is running
ChainCallbackInFront(s, id) ==
  IF s.generationQueue = <<>>
    THEN StartBody([s EXCEPT !.generationQueue = <<id>>], id)
    ELSE [s EXCEPT !.generationQueue = <<Head(@), id>> \o Tail(@), !.jobs[id].pc = "created"]

\* this._generationQueue = this._generationQueue.finally(callback) (start.ts:300):
\* callback runs once every callback chained before it has returned and its
\* promise has settled; chained to a settled promise it runs in the same macrotask
ChainCallback(s, id) ==
  IF s.generationQueue = <<>>
    THEN StartBody([s EXCEPT !.generationQueue = <<id>>], id)
    ELSE [s EXCEPT !.generationQueue = Append(@, id), !.jobs[id].pc = "created"]

\* variant: callback is chained whatever the classification
RunCallbackChained(s, id) == ChainCallback(s, id)

\* callback is chained when the job has uncached work, called otherwise (start.ts:299-303)
RunCallback(s, id) ==
  IF s.jobs[id].hasAnyUncached THEN ChainCallback(s, id) ELSE StartBody(s, id)

\* variant: the job is registered before the failure of the query is seen
GenerateFailRegistered(id) ==
  /\ jobs' = [jobs EXCEPT ![id].pc = "failed"]
  /\ pendingGenerations' = setInProgress(pendingGenerations, id, jobs[id].lines)
  /\ response' = [op |-> "generate", code |-> 500]
  /\ UNCHANGED <<waitingGenerations, generationTimeouts,
                 generationQueue, generations, storeTasks,
                 generated, timedOut, doneServed, idleMs>>

\* the classification query has failed: the outer catch of the handler logs
\* the error and, no header being sent yet, answers 500 (start.ts:184, 304-311)
GenerateFail(id) ==
  /\ jobs' = [jobs EXCEPT ![id].pc = "failed"]
  /\ response' = [op |-> "generate", code |-> 500]
  /\ UNCHANGED <<pendingGenerations, waitingGenerations, generationTimeouts,
                 generationQueue, generations, storeTasks,
                 generated, timedOut, doneServed, idleMs>>

\* the handler resumes from the await of the classification query; when the
\* query has succeeded the job is created, its timer armed, the id sent, and
\* callback is chained or called (start.ts:184-210, 299-303)
GenerateRespond(id) ==
  /\ id \in DOMAIN jobs
  /\ jobs[id].pc = "classify"
  /\ \E ok \in BOOLEAN :
       IF ok
         THEN /\ Commit(RunCallback(CreateJob(Cur, id), id))
              /\ generationTimeouts' = resetGenerationTimeout(generationTimeouts, id)
              /\ response' = [op |-> "generate", code |-> 200, generationId |-> id]
              /\ idleMs' = [idleMs EXCEPT ![id] = 0]
              /\ UNCHANGED <<generations, timedOut, doneServed>>
         ELSE GenerateFail(id)

\* ------------------------------------------------------------ line tasks
Running(id, i, pc) ==
  /\ id \in DOMAIN jobs
  /\ jobs[id].pc = "body"
  /\ i \in 1..Len(jobs[id].tasks)
  /\ jobs[id].tasks[i].pc = pc

LineStep(s) ==
  /\ Commit(s)
  /\ response' = NoResponse
  /\ UNCHANGED <<generationTimeouts, generations, timedOut, doneServed, idleMs>>

\* the cache lookup of a line returns (start.ts:225-242); the query saw the
\* table as it was at some moment between the body's start and now
LookupReturn(id, i) ==
  /\ Running(id, i, "lookup")
  /\ LET job == jobs[id]
         words == job.lines[i].words
         pending == job.pendingImageUrisByWords
     IN \E ok \in BOOLEAN, existingRecords \in SUBSET RowsFor(generations, md5(words)) :
          /\ RowsFor(job.rowsAtStart, md5(words)) \subseteq existingRecords
          /\ IF ~ok
               THEN LineStep(Finish(Catch(Cur, id, i), id))
             ELSE IF words \in DOMAIN pending
               THEN LET k == pending[words]
                        call == job.tasks[k].call
                    IN IF call = "inflight"
                         THEN LineStep([Cur EXCEPT !.jobs[id].tasks[i] =
                                          [@ EXCEPT !.pc = "awaitPending", !.awaits = k]])
                       ELSE IF call = "resolved"
                         THEN \E image \in ImagesOf(id, k, job.tasks[k].nImages) :
                                LineStep(Finish(Succeed(Cur, id, i, image), id))
                       ELSE LineStep(Finish(Catch(Cur, id, i), id))
             ELSE IF existingRecords # {}
               THEN \E randomRecord \in existingRecords :
                      LineStep([Cur EXCEPT !.jobs[id].tasks[i] =
                                  [@ EXCEPT !.pc = "readFile", !.record = randomRecord]])
             ELSE LineStep([Cur EXCEPT
                    !.jobs[id].uncachedIndex = @ + 1,
                    !.jobs[id].tasks[i] =
                       [@ EXCEPT !.pc = "delay",
                                 !.delayMs = ThrottleDelayMs(job.uncachedIndex + 1)]])

\* fs.promises.readFile of the picked record returns (start.ts:235-238, 270-273);
\* the file of a recorded id was written before its row was inserted
ReadFileReturn(id, i) ==
  /\ Running(id, i, "readFile")
  /\ \E ok \in BOOLEAN :
       /\ LineStep(Finish(IF ok THEN Succeed(Cur, id, i, jobs[id].tasks[i].record)
                                ELSE Catch(Cur, id, i), id))

\* variant: the generator is called without a look at the status
DelayReturnUnchecked(id, i) ==
  /\ Running(id, i, "delay")
  /\ LineStep([Cur EXCEPT
         !.jobs[id].pendingImageUrisByWords = MapSet(@, jobs[id].lines[i].words, i),
         !.jobs[id].tasks[i] = [@ EXCEPT !.pc = "generating", !.call = "inflight"]])

\* the throttle delay of a new phrase has elapsed (the model does not measure
\* time: it may elapse at any moment): status re-check, then the
\* generator is called and the call registered as pending (start.ts:242-254)
DelayReturn(id, i) ==
  /\ Running(id, i, "delay")
  /\ IF StatusOf(pendingGenerations, id) # "inProgress"
       THEN LineStep(Finish(SetResult(Cur, id, i, Undefined), id))
       ELSE LineStep([Cur EXCEPT
              !.jobs[id].pendingImageUrisByWords = MapSet(@, jobs[id].lines[i].words, i),
              !.jobs[id].tasks[i] = [@ EXCEPT !.pc = "generating", !.call = "inflight"]])

\* variant: the images are stored only for a job that is inProgress
StoreImagesIfInProgress(s, id, i, images) ==
  IF StatusOf(s.pendingGenerations, id) # "inProgress" THEN s
  ELSE [s EXCEPT !.storeTasks = @ \cup
          {[id |-> image, words_hash |-> md5(s.jobs[id].lines[i].words)] : image \in images}]

\* images.forEach(async (image) => ...) (start.ts:259-263): a detached store
\* is begun for every image, whatever the status of the job
StoreImages(s, id, i, images) ==
  [s EXCEPT !.storeTasks = @ \cup
     {[id |-> image, words_hash |-> md5(s.jobs[id].lines[i].words)] : image \in images}]

\* the generator call of a line settles: the images are handed to detached
\* stores, the line and the lines awaiting the pending promise resume
\* (start.ts:254-273, 229-232)
GeneratorReturn(id, i) ==
  /\ Running(id, i, "generating")
  /\ \E ok \in BOOLEAN, n \in 1..MaxImages :
       LET job == jobs[id]
           images == ImagesOf(id, i, n)
           awaiters == {k \in 1..Len(job.tasks) :
                          job.tasks[k].pc = "awaitPending" /\ job.tasks[k].awaits = i}
       IN \E pick \in [awaiters \cup {i} -> images] :
            /\ ~ok => n = 1
            /\ LET s1 == IF ok
                           THEN StoreImages([Cur EXCEPT
                                  !.jobs[id].tasks[i].call = "resolved",
                                  !.jobs[id].tasks[i].nImages = n,
                                  !.generated = @ \cup {job.lines[i].words}],
                                  id, i, images)
                           ELSE [Cur EXCEPT !.jobs[id].tasks[i].call = "rejected"]
                   s2 == IF ok THEN Succeed(s1, id, i, pick[i]) ELSE Catch(s1, id, i)
               IN LineStep(Finish(ResumeAwaiters(s2, id, awaiters, ok, pick), id))

\* ------------------------------------------------------------ detached stores
\* variant: the record of an image takes the place of the records of its hash
StoreReturnReplaces(t) ==
  /\ t \in storeTasks
  /\ \E ok \in BOOLEAN :
       generations' = IF ok THEN {r \in generations : r.words_hash # t.words_hash}
                                   \cup {[id |-> t.id, words_hash |-> t.words_hash]}
                            ELSE generations
  /\ storeTasks' = storeTasks \ {t}
  /\ response' = NoResponse
  /\ UNCHANGED <<jobs, pendingGenerations, waitingGenerations, generationTimeouts,
                 generationQueue, generated, timedOut, doneServed, idleMs>>

\* the detached store of one generated image ends (start.ts:259-263): the
\* file is written and the row inserted, or one of the two awaits fails and
\* the rejection of the detached async function is handled by nothing
StoreReturn(t) ==
  /\ t \in storeTasks
  /\ \E ok \in BOOLEAN :
       generations' = IF ok THEN generations \cup {[id |-> t.id, words_hash |-> t.words_hash]}
                            ELSE generations
  /\ storeTasks' = storeTasks \ {t}
  /\ response' = NoResponse
  /\ UNCHANGED <<jobs, pendingGenerations, waitingGenerations, generationTimeouts,
                 generationQueue, generated, timedOut, doneServed, idleMs>>

\* ------------------------------------------------------------ /poll
\* variant: a served done generation stays in the registry
AfterPollKeepsDone(pg, id) == pg

\* variant: a served generation in error leaves the registry like a done one
AfterPollDropsError(pg, id) ==
  IF pg[id].status \in {"done", "error"} THEN MapDelete(pg, id) ELSE pg

\* the registry after a poll has served the generation of id (start.ts:324-326)
AfterPoll(pg, id) == IF pg[id].status = "done" THEN MapDelete(pg, id) ELSE pg

\* variant: a poll arms the timer of the id also when it finds no generation
PollArmsAbsent(id) ==
  /\ id \in {UnknownId} \cup DOMAIN jobs
  /\ IF id \notin DOMAIN pendingGenerations
       THEN /\ response' = [op |-> "poll", id |-> id, code |-> 404]
            /\ generationTimeouts' = resetGenerationTimeout(generationTimeouts, id)
            /\ UNCHANGED <<pendingGenerations, doneServed, idleMs>>
       ELSE /\ response' = [op |-> "poll", id |-> id, code |-> 200,
                            body |-> Snapshot(pendingGenerations, waitingGenerations, id)]
            /\ pendingGenerations' = AfterPoll(pendingGenerations, id)
            /\ IF pendingGenerations[id].status = "done"
                 THEN /\ generationTimeouts' = MapDelete(generationTimeouts, id)
                      /\ doneServed' = doneServed \cup {id}
                      /\ UNCHANGED idleMs
                 ELSE /\ generationTimeouts' = resetGenerationTimeout(generationTimeouts, id)
                      /\ idleMs' = [idleMs EXCEPT ![id] = 0]
                      /\ UNCHANGED doneServed
  /\ UNCHANGED <<jobs, waitingGenerations, generationQueue, generations,
                 storeTasks, generated, timedOut>>

\* GET /poll/:generationId (start.ts:314-331)
Poll(id) ==
  /\ id \in {UnknownId} \cup DOMAIN jobs
  /\ IF id \notin DOMAIN pendingGenerations
       THEN /\ response' = [op |-> "poll", id |-> id, code |-> 404]
            /\ UNCHANGED <<pendingGenerations, generationTimeouts, doneServed, idleMs>>
       ELSE /\ response' = [op |-> "poll", id |-> id, code |-> 200,
                            body |-> Snapshot(pendingGenerations, waitingGenerations, id)]
            /\ pendingGenerations' = AfterPoll(pendingGenerations, id)
            /\ IF pendingGenerations[id].status = "done"
                 THEN /\ generationTimeouts' = MapDelete(generationTimeouts, id)
                      /\ doneServed' = doneServed \cup {id}
                      /\ UNCHANGED idleMs
                 ELSE /\ generationTimeouts' = resetGenerationTimeout(generationTimeouts, id)
                      /\ idleMs' = [idleMs EXCEPT ![id] = 0]
                      /\ UNCHANGED doneServed
  /\ UNCHANGED <<jobs, waitingGenerations, generationQueue, generations,
                 storeTasks, generated, timedOut>>

\* ------------------------------------------------------------ timers
\* variant: the timer leaves the waiting entry of the job in the list
TimerFireKeepsWaiting(id) ==
  /\ id \in DOMAIN generationTimeouts
  /\ generationTimeouts' = MapDelete(generationTimeouts, id)
  /\ pendingGenerations' = MapDelete(pendingGenerations, id)
  /\ timedOut' = timedOut \cup {id}
  /\ response' = NoResponse
  /\ UNCHANGED <<jobs, waitingGenerations, generationQueue, generations, storeTasks,
                 generated, doneServed, idleMs>>

\* the inactivity timer of a job fires (start.ts:407-414); the model does not
\* measure time: an armed timer may fire at any moment
TimerFire(id) ==
  /\ id \in DOMAIN generationTimeouts
  /\ generationTimeouts' = MapDelete(generationTimeouts, id)
  /\ pendingGenerations' = MapDelete(pendingGenerations, id)
  /\ waitingGenerations' = DeleteKey(waitingGenerations, id)
  /\ timedOut' = timedOut \cup {id}
  /\ response' = NoResponse
  /\ UNCHANGED <<jobs, generationQueue, generations, storeTasks,
                 generated, doneServed, idleMs>>

\* ------------------------------------------------------------ specification
Next ==
  \/ \E trackId \in TrackIds : GenerateRequest(trackId)
  \/ \E id \in JobIds : GenerateRespond(id)
  \/ \E id \in JobIds, i \in 1..MaxLines : LookupReturn(id, i)
  \/ \E id \in JobIds, i \in 1..MaxLines : ReadFileReturn(id, i)
  \/ \E id \in JobIds, i \in 1..MaxLines : DelayReturn(id, i)
  \/ \E id \in JobIds, i \in 1..MaxLines : GeneratorReturn(id, i)
  \/ \E t \in storeTasks : StoreReturn(t)
  \/ \E id \in {UnknownId} \cup JobIds : Poll(id)
  \/ \E id \in JobIds : TimerFire(id)

Spec == Init /\ [][Next]_vars

\* a due timer is run
TimerStep == \E id \in JobIds : TimerFire(id)

\* the continuation of a completed await of a handler or of callback is run
CallbackStep ==
  \/ \E id \in JobIds : GenerateRespond(id)
  \/ \E id \in JobIds, i \in 1..MaxLines :
       \/ LookupReturn(id, i)
       \/ ReadFileReturn(id, i)
       \/ DelayReturn(id, i)
       \/ GeneratorReturn(id, i)

\* the event loop runs the timers that are due and the continuations of the
\* awaits, which all return
FairSpec == Spec /\ WF_vars(TimerStep) /\ WF_vars(CallbackStep)

\* ------------------------------------------------------------ measured time
\* The specification below measures time in steps of TickMs: an armed timer
\* counts down and its callback runs no earlier than its delay (it may run
\* later, when the event loop is busy).
TickMs == GENERATION_TIMEOUT_MS \div TicksPerWindow

Max(a, b) == IF a >= b THEN a ELSE b
Min(a, b) == IF a <= b THEN a ELSE b

\* TickMs of time pass
Tick ==
  /\ generationTimeouts' =
       [id \in DOMAIN generationTimeouts |-> Max(0, generationTimeouts[id] - TickMs)]
  /\ idleMs' = [id \in JobIds |->
                  IF id \in DOMAIN pendingGenerations
                    THEN Min(GENERATION_TIMEOUT_MS, idleMs[id] + TickMs)
                    ELSE idleMs[id]]
  /\ response' = NoResponse
  /\ UNCHANGED <<jobs, pendingGenerations, waitingGenerations, generationQueue,
                 generations, storeTasks, generated, timedOut, doneServed>>

\* the callback of a timer runs once its delay has passed (start.ts:407-414)
TimerDue(id) ==
  /\ id \in DOMAIN generationTimeouts
  /\ generationTimeouts[id] = 0
  /\ TimerFire(id)

FewGenerateRequest(trackId) ==
  /\ Cardinality(DOMAIN jobs) < MaxFewJobs
  /\ GenerateRequest(trackId)

TimedNext ==
  \/ \E trackId \in TrackIds : FewGenerateRequest(trackId)
  \/ \E id \in JobIds : GenerateRespond(id)
  \/ \E id \in JobIds, i \in 1..MaxLines : LookupReturn(id, i)
  \/ \E id \in JobIds, i \in 1..MaxLines : ReadFileReturn(id, i)
  \/ \E id \in JobIds, i \in 1..MaxLines : DelayReturn(id, i)
  \/ \E id \in JobIds, i \in 1..MaxLines : GeneratorReturn(id, i)
  \/ \E t \in storeTasks : StoreReturn(t)
  \/ \E id \in {UnknownId} \cup JobIds : Poll(id)
  \/ \E id \in JobIds : TimerDue(id)
  \/ Tick

TimedSpec == Init /\ [][TimedNext]_vars

\* ------------------------------------------------------------ progress
\* the server with few requests, an event loop that runs the timers that are
\* due and the continuations of the awaits, which all return
FewNext ==
  \/ \E trackId \in TrackIds : FewGenerateRequest(trackId)
  \/ \E id \in JobIds : GenerateRespond(id)
  \/ \E id \in JobIds, i \in 1..MaxLines : LookupReturn(id, i)
  \/ \E id \in JobIds, i \in 1..MaxLines : ReadFileReturn(id, i)
  \/ \E id \in JobIds, i \in 1..MaxLines : DelayReturn(id, i)
  \/ \E id \in JobIds, i \in 1..MaxLines : GeneratorReturn(id, i)
  \/ \E t \in storeTasks : StoreReturn(t)
  \/ \E id \in {UnknownId} \cup JobIds : Poll(id)
  \/ \E id \in JobIds : TimerFire(id)

\* an await of a handler or of callback is outstanding: the classification
\* query of a request, or the lookup, file read, throttle delay or generator
\* call of a line
CallbackPending ==
  \E id \in DOMAIN jobs :
    \/ jobs[id].pc = "classify"
    \/ /\ jobs[id].pc = "body"
       /\ \E i \in 1..Len(jobs[id].tasks) :
            jobs[id].tasks[i].pc \in {"lookup", "readFile", "delay", "generating"}

\* CallbackPending is the enabling condition of CallbackStep
CallbackPendingIsEnabled == CallbackPending <=> ENABLED <<CallbackStep>>_vars

\* weak fairness of CallbackStep, its enabling condition written as CallbackPending
CallbackFairness == []<>(~CallbackPending) \/ []<><<CallbackStep>>_vars

FairFewSpec == Init /\ [][FewNext]_vars /\ WF_vars(TimerStep) /\ CallbackFairness

\* ------------------------------------------------------------ properties
Chained(id) == jobs[id].hasAnyUncached
ExecutingBody(id) == jobs[id].pc = "body"
Present(id) == id \in DOMAIN pendingGenerations
Status(id) == StatusOf(pendingGenerations, id)
Called(id, i) == jobs[id].tasks[i].call # "none"
PolledNow(id) == response.op = "poll" /\ response.id = id

\* C1: at most one job classified as having uncached work is executing its
\* body (from its start until all its lines have settled)
C1_OneChainedBody ==
  Cardinality({id \in DOMAIN jobs : Chained(id) /\ ExecutingBody(id)}) <= 1

\* a chained job reclaimed by timeout in mid-body still runs while another waits its turn
C1_Witness ==
  \E a, b \in DOMAIN jobs :
    /\ Chained(a) /\ ExecutingBody(a) /\ ~Present(a) /\ a \in timedOut
    /\ Chained(b) /\ jobs[b].pc = "created" /\ Status(b) = "waiting"

\* C2 as stated: at most one job of the registry, chained or not, is inProgress
C2_OneInProgress ==
  Cardinality({id \in DOMAIN pendingGenerations : Status(id) = "inProgress"}) <= 1

\* C2 amended: at most one job classified as having uncached work is inProgress;
\* jobs whose lines were all cached are inProgress beside it
C2_OneChainedInProgress ==
  Cardinality({id \in DOMAIN pendingGenerations :
                 Status(id) = "inProgress" /\ Chained(id)}) <= 1

\* a chained job and a fully cached job are inProgress while a chained job waits
C2_Witness ==
  \E a, b, c \in DOMAIN pendingGenerations :
    /\ Chained(a) /\ Status(a) = "inProgress"
    /\ ~Chained(b) /\ Status(b) = "inProgress"
    /\ Chained(c) /\ Status(c) = "waiting"

\* C3: within one job, the generator is called at most once for a text
C3_OneCallPerText ==
  \A id \in DOMAIN jobs :
    ExecutingBody(id) =>
      \A i, k \in 1..Len(jobs[id].tasks) :
        (i # k /\ jobs[id].lines[i].words = jobs[id].lines[k].words)
          => ~(Called(id, i) /\ Called(id, k))

\* C4: a job whose body started after the generator returned images for a
\* text makes no generator call for that text
C4_NoCallForGeneratedText ==
  \A id \in DOMAIN jobs :
    ExecutingBody(id) =>
      \A i \in 1..Len(jobs[id].tasks) :
        Called(id, i) => jobs[id].lines[i].words \notin jobs[id].generatedAtStart

\* C5: once poll has returned a done snapshot for an id, every later poll of
\* that id returns not-found (so the done snapshot is returned at most once)
C5_DoneServedOnce ==
  [][\A id \in doneServed :
       (response'.op = "poll" /\ response'.id = id) => response'.code = 404]_vars

\* a job served done is polled again
C5_Witness ==
  \E id \in doneServed : PolledNow(id) /\ response.code = 404

\* C6: a poll of an id whose inactivity timer has fired returns not-found
C6_TimedOutNotFound ==
  \A id \in timedOut : PolledNow(id) => response.code = 404

\* C7: with timers that fire when due, a job that is not polled from some
\* point on is eventually absent from the registry for good
C7_EventuallyDestroyed ==
  \A id \in JobIds : (<>[](~PolledNow(id))) => <>[](~Present(id))

\* C8: while a job is inProgress, total is its number of lines,
\* 0 <= done <= total, and done does not decrease
C8_Progress ==
  /\ [](\A id \in DOMAIN pendingGenerations :
          Status(id) = "inProgress" =>
            /\ pendingGenerations[id].total = Len(jobs[id].lines)
            /\ 0 <= pendingGenerations[id].done
            /\ pendingGenerations[id].done <= pendingGenerations[id].total)
  /\ [][\A id \in DOMAIN pendingGenerations :
          (Status(id) = "inProgress" /\ StatusOf(pendingGenerations', id) = "inProgress")
            => pendingGenerations'[id].done >= pendingGenerations[id].done]_vars

\* a job of two lines is inProgress with one line done
C8_Witness ==
  \E id \in DOMAIN pendingGenerations :
    /\ Status(id) = "inProgress"
    /\ pendingGenerations[id].done = 1
    /\ pendingGenerations[id].total = 2

\* C9: a waiting snapshot returned by poll carries queuePosition = (index of
\* the job in the waiting list) + 2, hence at least 2
C9_QueuePosition ==
  (response.op = "poll" /\ response.code = 200 /\ response.body.status = "waiting")
    => /\ response.body.queuePosition >= 2
       /\ response.body.queuePosition - 1 <= Len(waitingGenerations)
       /\ waitingGenerations[response.body.queuePosition - 1] = response.id
       /\ \A k \in 1..(response.body.queuePosition - 2) :
            waitingGenerations[k] # response.id

\* a poll returns a waiting snapshot for the second job of the waiting list
C9_Witness ==
  /\ response.op = "poll" /\ response.code = 200
  /\ response.body.status = "waiting"
  /\ response.body.queuePosition = 3

\* the jobs listed before id in a waiting list
Ahead(wg, id) == {wg[k] : k \in 1..IndexOf(wg, id)}

\* C10: while a job stays waiting its queue position never increases, and it
\* decreases by one for every job ahead of it that leaves the waiting list
C10_PositionDecreases ==
  [][\A id \in DOMAIN pendingGenerations :
       (Status(id) = "waiting" /\ StatusOf(pendingGenerations', id) = "waiting")
         => /\ QueuePosition(waitingGenerations', id) <= QueuePosition(waitingGenerations, id)
            /\ QueuePosition(waitingGenerations', id) =
                 QueuePosition(waitingGenerations, id)
                   - Cardinality(Ahead(waitingGenerations, id) \ Range(waitingGenerations'))]_vars

\* a job is first in the waiting list after a job chained before it was
\* reclaimed by timeout while waiting
C10_Witness ==
  \E id, k \in DOMAIN jobs :
    /\ Status(id) = "waiting" /\ QueuePosition(waitingGenerations, id) = 2
    /\ k \in timedOut /\ jobs[k].pc = "created"
    /\ IndexOf(generationQueue, k) < IndexOf(generationQueue, id)

\* the distinct hashes of a job's lines
DistinctHashes(lines) == {md5(lines[k].words) : k \in 1..Len(lines)}

\* the step in which the /generate handler of id resumes and creates the job
Creates(id) ==
  id \in DOMAIN jobs /\ jobs[id].pc = "classify" /\ jobs'[id].pc \notin {"classify", "failed"}

\* C11: the classification query of a new request finds uncached work exactly
\* when fewer distinct hashes of its lines have a stored record than it has
\* distinct hashes; the job is created waiting and appended to the waiting
\* list in that case, and inProgress with done = 0 and total = number of
\* lines otherwise
C11_Classification ==
  [][\A id \in DOMAIN jobs' :
       /\ id \notin DOMAIN jobs =>
            (jobs'[id].hasAnyUncached <=>
               Cardinality({h \in DistinctHashes(jobs'[id].lines) :
                              \E r \in generations : r.words_hash = h})
                 < Cardinality(DistinctHashes(jobs'[id].lines)))
       /\ Creates(id) =>
            LET s == CreateJob(Cur, id)
            IN IF jobs[id].hasAnyUncached
                 THEN /\ s.pendingGenerations[id] = Waiting
                      /\ s.waitingGenerations = Append(waitingGenerations, id)
                      /\ generationQueue # <<>> =>
                           /\ pendingGenerations'[id] = Waiting
                           /\ waitingGenerations' = Append(waitingGenerations, id)
                 ELSE /\ s.pendingGenerations[id] = InProgress(0, Len(jobs[id].lines))
                      /\ s.waitingGenerations = waitingGenerations
                      /\ pendingGenerations'[id] = InProgress(0, Len(jobs[id].lines))
                      /\ waitingGenerations' = waitingGenerations]_vars

\* generate has just created a fully cached job inProgress and, before it, a
\* job with an uncached line that is waiting
C11_Witness ==
  /\ response.op = "generate" /\ response.code = 200
  /\ ~Chained(response.generationId)
  /\ pendingGenerations[response.generationId] = InProgress(0, 1)
  /\ \E a \in DOMAIN pendingGenerations :
       Chained(a) /\ pendingGenerations[a] = Waiting /\ a \in Range(waitingGenerations)

\* C12: a job classified as fully cached is never waiting, never in the
\* waiting list and never queued behind a chained job: past its
\* classification it is executing its body or has finished it
C12_CachedBypassesChain ==
  \A id \in DOMAIN jobs :
    (~Chained(id) /\ jobs[id].pc # "failed") =>
      /\ Status(id) # "waiting"
      /\ id \notin Range(waitingGenerations)
      /\ id \notin Range(generationQueue)
      /\ jobs[id].pc \in {"classify", "body", "finished"}

\* a fully cached job requested after a chained job is done while the
\* chained job is still inProgress in its body
C12_Witness ==
  \E a, b \in DOMAIN pendingGenerations :
    /\ ~Chained(a) /\ Status(a) = "done"
    /\ Chained(b) /\ Status(b) = "inProgress" /\ ExecutingBody(b)
    /\ b < a

\* C13: a job classified as fully cached takes the new-phrase branch for no
\* line: no throttle delay, no generator call, no wait on a pending call,
\* and no image of it is handed to a store
C13_CachedNoGeneration ==
  /\ \A id \in DOMAIN jobs :
       (~Chained(id) /\ ExecutingBody(id)) =>
         /\ jobs[id].uncachedIndex = -1
         /\ jobs[id].pendingImageUrisByWords = EmptyMap
         /\ \A i \in 1..Len(jobs[id].tasks) :
              /\ ~Called(id, i)
              /\ jobs[id].tasks[i].delayMs = 0
              /\ jobs[id].tasks[i].pc \in {"lookup", "readFile", "settled"}
  /\ \A t \in storeTasks : Chained(t.id[1])

\* a fully cached job reads the file of a record while the generator call of
\* a chained job is in flight
C13_Witness ==
  \E a, b \in DOMAIN jobs :
    /\ ~Chained(a) /\ ExecutingBody(a) /\ jobs[a].tasks[1].pc = "readFile"
    /\ Chained(b) /\ ExecutingBody(b)
    /\ \E i \in 1..Len(jobs[b].tasks) : jobs[b].tasks[i].call = "inflight"

\* C14: when every await returns, no callback stays attached to the chain
\* without its body being started (its body, once started, stays started)
C14_ChainNeverStalls ==
  \A id \in JobIds : []<>(~(id \in DOMAIN jobs /\ jobs[id].pc = "created"))

\* the body of a chained job runs after the chained job before it ended in
\* error, and after one before it was reclaimed by timeout
C14_Witness ==
  \E a, b \in DOMAIN jobs :
    /\ a < b /\ Chained(a) /\ Chained(b)
    /\ jobs[a].pc = "finished" /\ Status(a) = "error"
    /\ ExecutingBody(b)

\* C15: a job is done only once its body has returned, it becomes done from
\* inProgress only, and the done result has one entry per line, in line
\* order, each with the startTimeMs and words of its line
C15_DoneResult ==
  /\ [](\A id \in DOMAIN pendingGenerations :
          Status(id) = "done" =>
            /\ jobs[id].pc = "finished"
            /\ Len(pendingGenerations[id].lyrics) = Len(jobs[id].lines)
            /\ \A i \in 1..Len(jobs[id].lines) :
                 /\ pendingGenerations[id].lyrics[i] # Undefined
                 /\ pendingGenerations[id].lyrics[i].startTimeMs = jobs[id].lines[i].startTimeMs
                 /\ pendingGenerations[id].lyrics[i].words = jobs[id].lines[i].words)
  /\ [][\A id \in DOMAIN pendingGenerations' :
          (StatusOf(pendingGenerations', id) = "done" /\ Status(id) # "done")
            => /\ Status(id) = "inProgress"
               /\ ExecutingBody(id)
               /\ jobs'[id].pc = "finished"]_vars

\* a job of two lines is done
C15_Witness ==
  \E id \in DOMAIN pendingGenerations :
    Status(id) = "done" /\ Len(pendingGenerations[id].lyrics) = 2

\* C16: a poll that finds a job that is not done arms its timer with the full
\* window, and a timer deletes a job only when a full window has passed
\* since generate or a poll last found the job
C16_PollRestartsTimer ==
  [][\A id \in JobIds :
       /\ (/\ response'.op = "poll" /\ response'.id = id /\ response'.code = 200
           /\ response'.body.status # "done")
            => /\ id \in DOMAIN generationTimeouts'
               /\ generationTimeouts'[id] = GENERATION_TIMEOUT_MS
       /\ (/\ id \in DOMAIN generationTimeouts /\ id \notin DOMAIN generationTimeouts'
           /\ response'.op # "poll")
            => idleMs[id] >= GENERATION_TIMEOUT_MS]_vars

\* a job created before a job whose timer has fired is still registered, a
\* poll having just restarted its timer
C16_Witness ==
  \E id, k \in DOMAIN jobs :
    /\ id < k /\ k \in timedOut /\ id \notin timedOut
    /\ PolledNow(id) /\ response.code = 200 /\ response.body.status # "done"
    /\ generationTimeouts[id] = GENERATION_TIMEOUT_MS

\* C17: a request that ends with the unprocessable signal leaves the
\* registry, the waiting list, the timers and the chain as they were, and no
\* job is made of a track without lines or with no synced line
C17_Unprocessable ==
  /\ [](\A id \in DOMAIN jobs :
          /\ jobs[id].lines # <<>>
          /\ \E k \in 1..Len(jobs[id].lines) : jobs[id].lines[k].startTimeMs # 0)
  /\ [][(response'.op = "generate" /\ response'.code = 422)
          => UNCHANGED <<jobs, pendingGenerations, waitingGenerations,
                         generationTimeouts, generationQueue>>]_vars

\* generate has answered 422 while jobs are registered
C17_Witness ==
  /\ response.op = "generate" /\ response.code = 422
  /\ pendingGenerations # EmptyMap /\ generationQueue # <<>>

\* C18: the jobs of the registry are the ids with an armed timer
C18_TimerPerJob == DOMAIN generationTimeouts = DOMAIN pendingGenerations

\* C19: a registered job is waiting exactly when the waiting list holds it,
\* the list holds registered jobs only, and each once
C19_WaitingListed ==
  /\ \A id \in DOMAIN pendingGenerations :
       Status(id) = "waiting" <=> id \in Range(waitingGenerations)
  /\ Range(waitingGenerations) \subseteq DOMAIN pendingGenerations
  /\ Cardinality(Range(waitingGenerations)) = Len(waitingGenerations)

\* two jobs are listed waiting behind a job that was reclaimed by timeout in mid-body
C19_Witness ==
  /\ Len(waitingGenerations) = 2
  /\ generationQueue # <<>>
  /\ Head(generationQueue) \in timedOut
  /\ ~Present(Head(generationQueue))

\* C20: a job in error is in or past its body, and from then on it is in
\* error or absent: it is never inProgress (no done counter to increment)
\* and never done
C20_ErrorIsFinal ==
  /\ [](\A id \in DOMAIN pendingGenerations :
          Status(id) = "error" => jobs[id].pc \in {"body", "finished"})
  /\ [][\A id \in DOMAIN jobs :
          jobs[id].pc \in {"body", "finished"} =>
            /\ jobs'[id].pc \in {"body", "finished"}
            /\ Status(id) \in {"error", "undefined"}
                 => StatusOf(pendingGenerations', id) \in {"error", "undefined"}]_vars

\* a job is in error while the generator call of one of its lines is in flight
C20_Witness ==
  \E id \in DOMAIN pendingGenerations :
    /\ Status(id) = "error" /\ ExecutingBody(id)
    /\ \E i \in 1..Len(jobs[id].tasks) : jobs[id].tasks[i].call = "inflight"

\* the step in which the generator call of line i of job id is made
CallStarts(id, i) ==
  /\ id \in DOMAIN jobs' /\ jobs'[id].pc = "body"
  /\ i \in 1..Len(jobs'[id].tasks)
  /\ jobs'[id].tasks[i].call = "inflight"
  /\ ~(id \in DOMAIN jobs /\ jobs[id].pc = "body" /\ jobs[id].tasks[i].call = "inflight")

\* C21: the generator is called for a line only while its job is inProgress,
\* and a line that resumes from its throttle delay in a job that is not
\* inProgress settles without a call and without a result
C21_NoCallUnlessInProgress ==
  [][\A id \in JobIds, i \in 1..MaxLines :
       /\ CallStarts(id, i) =>
            /\ Status(id) = "inProgress"
            /\ StatusOf(pendingGenerations', id) = "inProgress"
       /\ (/\ id \in DOMAIN jobs /\ ExecutingBody(id)
           /\ i \in 1..Len(jobs[id].tasks)
           /\ jobs[id].tasks[i].pc = "delay"
           /\ Status(id) # "inProgress"
           /\ (jobs'[id].pc # "body" \/ jobs'[id].tasks[i] # jobs[id].tasks[i]))
            => \/ jobs'[id].pc = "finished"
               \/ /\ jobs'[id].tasks[i].pc = "settled"
                  /\ jobs'[id].tasks[i].call = "none"
                  /\ jobs'[id].tasks[i].result = Undefined]_vars

\* in a job that is no longer inProgress, a line that had found a new phrase
\* has settled without a call while the call of another line is in flight
C21_Witness ==
  \E id \in DOMAIN jobs :
    /\ ExecutingBody(id) /\ Status(id) # "inProgress"
    /\ jobs[id].uncachedIndex = 1 /\ Len(jobs[id].tasks) = 2
    /\ \E i, k \in 1..2 :
         /\ jobs[id].tasks[i].pc = "settled" /\ jobs[id].tasks[i].call = "none"
         /\ jobs[id].tasks[i].result = Undefined
         /\ jobs[id].tasks[k].call = "inflight"

\* C22: a job whose timer has fired is not in the registry again (a job
\* reclaimed while waiting does not reappear when its turn arrives)
C22_ReclaimedStaysGone ==
  \A id \in timedOut : ~Present(id)

\* C23: the catch block of a line sets the job to error when it is
\* inProgress and leaves the registry alone otherwise, and touches nothing
\* else; a generator call that is seen to fail in a job inProgress leaves
\* the job in error
C23_FailureIsJobError ==
  /\ [](\A id \in DOMAIN jobs :
          ExecutingBody(id) =>
            \A i \in 1..Len(jobs[id].tasks) :
              jobs[id].tasks[i].pc # "settled" =>
                LET s == Catch(Cur, id, i)
                IN /\ s.waitingGenerations = waitingGenerations
                   /\ s.generationQueue = generationQueue
                   /\ s.storeTasks = storeTasks
                   /\ s.generations = generations
                   /\ \A k \in DOMAIN jobs : k # id => s.jobs[k] = jobs[k]
                   /\ IF Status(id) = "inProgress"
                        THEN s.pendingGenerations =
                               [x \in DOMAIN pendingGenerations |->
                                  IF x = id THEN [status |-> "error"]
                                            ELSE pendingGenerations[x]]
                        ELSE s.pendingGenerations = pendingGenerations)
  /\ [][\A id \in DOMAIN jobs :
          (ExecutingBody(id) /\ jobs'[id].pc = "body") =>
            \A i \in 1..Len(jobs[id].tasks) :
              (jobs[id].tasks[i].call = "inflight" /\ jobs'[id].tasks[i].call = "rejected")
                => IF Status(id) = "inProgress"
                     THEN StatusOf(pendingGenerations', id) = "error"
                     ELSE pendingGenerations' = pendingGenerations]_vars

\* a job is in error after the generator call of one of its lines failed,
\* another line being unsettled
C23_Witness ==
  \E id \in DOMAIN pendingGenerations :
    /\ Status(id) = "error" /\ ExecutingBody(id)
    /\ \E i \in 1..Len(jobs[id].tasks) :
         /\ jobs[id].tasks[i].call = "rejected"
         /\ jobs[id].tasks[i].result = LineResult(jobs[id].lines[i], NoImage)

\* C24: when the store of a generated image ends without its record in the
\* Dedup Cache, the job that generated the image is in error
C24_StoreFailureIsJobError ==
  [][\A t \in storeTasks :
       (t \notin storeTasks' /\ t \notin generations')
         => StatusOf(pendingGenerations', t.id[1]) = "error"]_vars

\* C25: the phrases a job counts for its throttle are distinct phrases of
\* its lines, so the count stays below their number, and the delay of a line
\* is floor(n / 3) * 10 s for such a count n
C25_ThrottlePerPhrase ==
  \A id \in DOMAIN jobs :
    ExecutingBody(id) =>
      /\ jobs[id].uncachedIndex + 1 <= Cardinality(UniqueWords(jobs[id].lines))
      /\ \A i \in 1..Len(jobs[id].tasks) :
           jobs[id].tasks[i].delayMs \in
             {(n \div 3) * 10000 : n \in 0..(Cardinality(UniqueWords(jobs[id].lines)) - 1)}

\* C26: callbacks leave the chain in the order they were attached: only the
\* first attached callback executes, a callback is attached last, the first
\* leaves when its lines have all settled, and a body starts only when every
\* callback attached before it has left
C26_Fifo ==
  /\ [](\A k \in 1..Len(generationQueue) :
          jobs[generationQueue[k]].pc = IF k = 1 THEN "body" ELSE "created")
  /\ [][/\ \/ generationQueue' = generationQueue
           \/ \E id \in JobIds : generationQueue' = Append(generationQueue, id)
           \/ /\ generationQueue # <<>>
              /\ generationQueue' = Tail(generationQueue)
              /\ jobs'[Head(generationQueue)].pc = "finished"
        /\ \A id \in DOMAIN jobs :
             (jobs[id].pc = "created" /\ jobs'[id].pc # "created")
               => /\ jobs'[id].pc = "body"
                  /\ generationQueue' = Tail(generationQueue)
                  /\ Head(generationQueue') = id]_vars

\* a job reclaimed by timeout while waiting executes its body, registered
\* again, while the job attached after it waits
C26_Witness ==
  /\ Len(generationQueue) = 2
  /\ Head(generationQueue) \in timedOut
  /\ Present(Head(generationQueue)) /\ ExecutingBody(Head(generationQueue))
  /\ Status(generationQueue[2]) = "waiting"

\* C27: the step in which the timer of a job fires removes the job from the
\* registry, the waiting list and the timers, and changes nothing else
C27_TimerDeletes ==
  [][\A id \in JobIds :
       (/\ id \in DOMAIN generationTimeouts /\ id \notin DOMAIN generationTimeouts'
        /\ response'.op # "poll")
         => /\ pendingGenerations' =
                 [x \in (DOMAIN pendingGenerations) \ {id} |-> pendingGenerations[x]]
            /\ generationTimeouts' =
                 [x \in (DOMAIN generationTimeouts) \ {id} |-> generationTimeouts[x]]
            /\ waitingGenerations' = SelectSeq(waitingGenerations, LAMBDA y : y # id)
            /\ UNCHANGED <<jobs, generationQueue, generations, storeTasks>>]_vars

\* a job whose body had returned has been reclaimed by timeout while two
\* other jobs are registered, one of them waiting
C27_Witness ==
  \E id \in timedOut :
    /\ ~Present(id) /\ id \notin DOMAIN generationTimeouts
    /\ jobs[id].pc = "finished" /\ id \notin doneServed
    /\ Cardinality(DOMAIN pendingGenerations) = 2
    /\ waitingGenerations # <<>>

\* C28: a registered job keeps its status or moves waiting -> inProgress,
\* inProgress -> done or inProgress -> error, and a job deleted during or
\* after its body is not registered again
C28_StatusOrder ==
  [][\A id \in DOMAIN jobs :
       /\ (Present(id) /\ id \in DOMAIN pendingGenerations')
            => \/ StatusOf(pendingGenerations', id) = Status(id)
               \/ <<Status(id), StatusOf(pendingGenerations', id)>> \in
                    {<<"waiting", "inProgress">>, <<"inProgress", "done">>,
                     <<"inProgress", "error">>}
       /\ (jobs[id].pc \in {"body", "finished"} /\ ~Present(id))
            => id \notin DOMAIN pendingGenerations']_vars

\* a poll has returned the error snapshot of a job whose body has returned,
\* and the job is still in error
C28_Witness ==
  \E id \in DOMAIN pendingGenerations :
    /\ PolledNow(id) /\ response.code = 200 /\ response.body.status = "error"
    /\ Status(id) = "error" /\ jobs[id].pc = "finished"

\* C29: no registered job is cancelled and no poll returns a cancelled snapshot
C29_NeverCancelled ==
  /\ \A id \in DOMAIN pendingGenerations :
       Status(id) \in {"waiting", "inProgress", "error", "done"}
  /\ (response.op = "poll" /\ response.code = 200)
       => response.body.status \in {"waiting", "inProgress", "error", "done"}

\* a job abandoned while waiting was deleted by its timer, and a poll of it
\* has returned not-found
C29_Witness ==
  \E id \in timedOut :
    /\ jobs[id].pc = "created" /\ ~Present(id)
    /\ PolledNow(id) /\ response.code = 404

FromCall(res, id, k) ==
  \/ res = Undefined
  \/ res.imageUri.base64 = NoImage
  \/ res.imageUri.base64 \in ImagesOf(id, k, MaxImages)

\* the result of line i of job id after the step, where it can be seen: in the
\* settled task while callback runs, in the lyrics of the job once it is done
ResultAfter(id, i) ==
  IF jobs'[id].pc = "body" /\ jobs'[id].tasks[i].pc = "settled"
    THEN jobs'[id].tasks[i].result
  ELSE IF jobs'[id].pc = "finished" /\ StatusOf(pendingGenerations', id) = "done"
    THEN pendingGenerations'[id].lyrics[i]
  ELSE Undefined

\* C31: a line that finds a pending generator call registered for its words by
\* another line of its job awaits that call, and the image it resolves to is
\* one of the images that call returned: never the image of a record of the
\* table, never an image of another call
C31_PendingImage ==
  [][\A id \in DOMAIN jobs : ExecutingBody(id) =>
       \A i \in 1..Len(jobs[id].tasks) :
         LET task == jobs[id].tasks[i]
             words == jobs[id].lines[i].words
             pending == jobs[id].pendingImageUrisByWords
         IN /\ (task.pc = "lookup" /\ words \in DOMAIN pending /\ jobs'[id].pc = "body")
                 => jobs'[id].tasks[i].pc \in {"lookup", "awaitPending", "settled"}
            /\ (task.pc = "lookup" /\ words \in DOMAIN pending)
                 => /\ pending[words] # i
                    /\ jobs[id].lines[pending[words]].words = words
                    /\ FromCall(ResultAfter(id, i), id, pending[words])
                    /\ (jobs'[id].pc = "body" /\ jobs'[id].tasks[i].pc = "awaitPending")
                         => jobs'[id].tasks[i].awaits = pending[words]
            /\ task.pc = "awaitPending"
                 => /\ task.awaits # i
                    /\ jobs[id].lines[task.awaits].words = words
                    /\ jobs[id].tasks[task.awaits].call = "inflight"
                    /\ FromCall(ResultAfter(id, i), id, task.awaits)
                    /\ (jobs'[id].pc = "body" /\ jobs'[id].tasks[i].pc = "awaitPending")
                         => jobs'[id].tasks[i].awaits = task.awaits]_vars

\* both lines of a job with a repeated phrase carry the image of the one call
\* made for it, and the table held a record of the phrase by then
C31_Witness ==
  \E id \in DOMAIN pendingGenerations :
    /\ Status(id) = "done"
    /\ Len(pendingGenerations[id].lyrics) = 2
    /\ pendingGenerations[id].lyrics[1].imageUri.base64 \in ImagesOf(id, 1, MaxImages)
    /\ pendingGenerations[id].lyrics[2].imageUri.base64 \in ImagesOf(id, 1, MaxImages)
    /\ \E r \in generations : r.words_hash = md5("b") /\ r.id \notin ImagesOf(id, 1, MaxImages)

\* the classification query of the request of id has failed
QueryFailed(id) == jobs[id].pc = "failed"

\* C32: when the classification query of a generate request fails, the
\* request is answered 500 and no job is created: the step leaves the
\* registry, the waiting list, the timers and the chain as they were, and
\* the id of the request never enters any of them
C32_QueryFailure ==
  /\ [](\A id \in DOMAIN jobs : QueryFailed(id) =>
          /\ id \notin DOMAIN pendingGenerations
          /\ id \notin Range(waitingGenerations)
          /\ id \notin DOMAIN generationTimeouts
          /\ id \notin Range(generationQueue)
          /\ id \notin timedOut \cup doneServed)
  /\ [][\A id \in DOMAIN jobs :
         (jobs[id].pc = "classify" /\ QueryFailed(id)') =>
           /\ response' = [op |-> "generate", code |-> 500]
           /\ UNCHANGED <<pendingGenerations, waitingGenerations,
                          generationTimeouts, generationQueue>>]_vars

\* a request has just been answered 500 while a job runs at the head of the
\* chain and another waits behind it
C32_Witness ==
  /\ response = [op |-> "generate", code |-> 500]
  /\ \E id \in DOMAIN jobs : QueryFailed(id)
  /\ Len(generationQueue) = 2
  /\ waitingGenerations # <<>>
  /\ DOMAIN generationTimeouts # {}

\* C33: the table of generated images only grows: no step removes or changes
\* a record, so a hash that has a record keeps one
C33_AppendOnly ==
  [][/\ generations \subseteq generations'
     /\ \A r \in generations : RowsFor(generations', r.words_hash) # {}]_vars

\* the record the server started with is still there beside two records of
\* one phrase, inserted by two stores
C33_Witness ==
  /\ SeedRow \in generations
  /\ Cardinality(RowsFor(generations, md5("b"))) >= 2

\* the lines of a job in its body that have returned, and those that have not
SettledLines(id) ==
  {i \in 1..Len(jobs[id].tasks) : jobs[id].tasks[i].pc = "settled"}
UnsettledLines(id) == (1..Len(jobs[id].tasks)) \ SettledLines(id)

\* C34: when a job goes from inProgress to done its done counter has reached
\* its total: while the job is inProgress in its body, done counts the lines
\* that have returned, each once and each with an image, and the step that
\* makes the job done is the one in which its last lines return
C34_DoneCountsEveryLine ==
  /\ [](\A id \in DOMAIN pendingGenerations :
          (Status(id) = "inProgress" /\ ExecutingBody(id)) =>
            /\ pendingGenerations[id].total = Len(jobs[id].lines)
            /\ pendingGenerations[id].done = Cardinality(SettledLines(id))
            /\ \A i \in SettledLines(id) :
                 /\ jobs[id].tasks[i].result # Undefined
                 /\ jobs[id].tasks[i].result.imageUri.base64 # NoImage)
  /\ [][\A id \in DOMAIN pendingGenerations :
         (Status(id) = "inProgress" /\ StatusOf(pendingGenerations', id) = "done") =>
           /\ ExecutingBody(id)
           /\ UnsettledLines(id) # {}
           /\ pendingGenerations[id].done + Cardinality(UnsettledLines(id))
                = pendingGenerations[id].total
           /\ Len(pendingGenerations'[id].lyrics) = pendingGenerations[id].total
           /\ \A i \in 1..pendingGenerations[id].total :
                /\ pendingGenerations'[id].lyrics[i] # Undefined
                /\ pendingGenerations'[id].lyrics[i].imageUri.base64 # NoImage
                /\ i \in SettledLines(id) =>
                     pendingGenerations'[id].lyrics[i] = jobs[id].tasks[i].result]_vars

\* a job whose timer deleted it while it waited, and whose callback
\* registered it again with done = 0, is done with two lines
C34_Witness ==
  \E id \in DOMAIN pendingGenerations :
    /\ Status(id) = "done"
    /\ id \in timedOut
    /\ Len(pendingGenerations[id].lyrics) = 2

\* C35: a poll of an id the registry does not hold is answered 404 and
\* changes nothing: no registry entry, no waiting entry and no timer is
\* made for the id
C35_PollOfAbsentId ==
  [][(response'.op = "poll" /\ response'.id \notin DOMAIN pendingGenerations) =>
       /\ response'.code = 404
       /\ response'.id \notin DOMAIN pendingGenerations'
       /\ response'.id \notin Range(waitingGenerations')
       /\ response'.id \notin DOMAIN generationTimeouts'
       /\ UNCHANGED <<jobs, pendingGenerations, waitingGenerations, generationTimeouts,
                      generationQueue, generations, storeTasks, generated,
                      timedOut, doneServed, idleMs>>]_vars

\* an id the server never issued has just been polled while the registry,
\* the waiting list and the timers hold other jobs
C35_Witness ==
  /\ response = [op |-> "poll", id |-> UnknownId, code |-> 404]
  /\ DOMAIN pendingGenerations # {}
  /\ waitingGenerations # <<>>
  /\ DOMAIN generationTimeouts # {}

\* C36: a poll of a job in error returns the error snapshot, leaves the job
\* in the registry in error and restarts its timer; a job in error stays in
\* error while it is registered, and the step that removes it is the firing
\* of its timer, a full window after the last poll
C36_ErrorStaysUntilTimeout ==
  [][\A id \in DOMAIN pendingGenerations :
       Status(id) = "error" =>
         /\ (response'.op = "poll" /\ response'.id = id) =>
              /\ response'.code = 200
              /\ response'.body = Error
              /\ id \in DOMAIN pendingGenerations'
              /\ generationTimeouts'[id] = GENERATION_TIMEOUT_MS
              /\ idleMs'[id] = 0
         /\ id \in DOMAIN pendingGenerations' => pendingGenerations'[id] = Error
         /\ id \notin DOMAIN pendingGenerations' =>
              /\ response'.op # "poll"
              /\ id \in DOMAIN generationTimeouts
              /\ generationTimeouts[id] = 0
              /\ idleMs[id] = GENERATION_TIMEOUT_MS
              /\ id \notin DOMAIN generationTimeouts'
              /\ id \in timedOut']_vars

\* a job in error has just been polled and is still registered in error with
\* a restarted timer, after the timer of a job created later has fired
C36_Witness ==
  \E id, k \in DOMAIN jobs :
    /\ id < k /\ k \in timedOut /\ id \notin timedOut
    /\ PolledNow(id) /\ response.code = 200 /\ response.body = Error
    /\ id \in DOMAIN pendingGenerations /\ pendingGenerations[id] = Error
    /\ generationTimeouts[id] = GENERATION_TIMEOUT_MS

====
